---- MODULE Spec2Model ----
(***************************************************************************)
(* Model of src/preprocess.py: load_data globs a directory, reads every    *)
(* matching CIS PUMF with _read_cis_pumf (read_stata, rename, column       *)
(* selection, missing-code filter, age-group filter) and concatenates the  *)
(* per-file frames with a fresh index.                                     *)
(*                                                                         *)
(* A DataFrame is a record [columns, index, rows]: columns is the sequence *)
(* of column labels (labels may repeat), index the sequence of row labels, *)
(* rows the sequence of rows, each row a sequence of cells aligned with    *)
(* columns.  A cell is a tagged value: Str(s) for a string code, Num(n)    *)
(* for a number, so that '9' and 9 are different values as in Python.      *)
(***************************************************************************)
EXTENDS Integers, Sequences, FiniteSets, TLC

VARIABLES files, pc, i, dfs, result

vars == <<files, pc, i, dfs, result>>

----------------------------------------------------------------------------
(* Bounds of the model. *)
MaxFiles == 2
MaxRows == 2

----------------------------------------------------------------------------
(* Values *)
Str(s) == [t |-> "str", s |-> s, n |-> 0]
Num(n) == [t |-> "num", s |-> "", n |-> n]

Range(s) == { s[j] : j \in DOMAIN s }
Idx(n) == [j \in 1..n |-> j]

NoDF == [columns |-> <<>>, index |-> <<>>, rows |-> <<>>]
Ok(df) == [status |-> "ok", df |-> df]
Raise(e) == [status |-> e, df |-> NoDF]

----------------------------------------------------------------------------
(* The lookup tables of _read_cis_pumf *)
cols ==
  << "year", "pumfid", "personid", "fweight",
     "sex", "agegp", "marst", "immst", "yrimmg",
     "prov", "uszgap",
     "ttinc", "atinc", "mtinc", "gtr",
     "hhsize", "hhcomp",
     "dwltyp", "dwtenr", "repa", "suit", "mortg", "mortgm", "condmp", "rentm" >>

col_renamings(c) ==
  CASE c = "marstp" -> "marst"
    [] c = "immstp" -> "immst"
    [] c = "yrimmgp" -> "yrimmg"
    [] OTHER -> c

(* variant: the marst code written as in the other columns *)
missing_codes_marst9 ==
  << <<"marst", "9">>, <<"immst", "9">>, <<"yrimmg", "9">>,
     <<"dwltyp", "9">>, <<"dwtenr", "9">>, <<"suit", "9">> >>

missing_codes ==
  << <<"marst", "99">>, <<"immst", "9">>, <<"yrimmg", "9">>,
     <<"dwltyp", "9">>, <<"dwtenr", "9">>, <<"suit", "9">> >>

Digits == << "0", "1", "2", "3", "4", "5", "6", "7", "8", "9" >>

(* f"{i:02d}" for 0 <= i <= 99 *)
Fmt02(n) == Digits[(n \div 10) + 1] \o Digits[(n % 10) + 1]

(* variant: range(7, 15) *)
agegp_codes_short == { Fmt02(n) : n \in 7..14 }

agegp_codes_2012_17 == { Fmt02(n) : n \in 7..15 }
agegp_codes_2018_22 == { Fmt02(n) : n \in 6..14 }

----------------------------------------------------------------------------
(* DataFrame operations *)

(* positions of label c in a column axis, ascending *)
Positions(columns, c) == SelectSeq(Idx(Len(columns)), LAMBDA j : columns[j] = c)

RECURSIVE Indexer(_, _)
Indexer(columns, keys) ==
  IF keys = <<>> THEN <<>>
  ELSE Positions(columns, Head(keys)) \o Indexer(columns, Tail(keys))

(* pd.read_stata(path): a frame with a RangeIndex, or a parse error *)
read_stata(f) ==
  IF ~f.parses THEN Raise("ParserError")
  ELSE Ok([columns |-> f.columns,
           index |-> [r \in 1..Len(f.rows) |-> r - 1],
           rows |-> f.rows])

(* variant: the frame returned by df.rename dropped *)
rename_discarded(df) == df

(* df.rename(columns=col_renamings) *)
rename(df) ==
  [df EXCEPT !.columns = [j \in DOMAIN df.columns |-> col_renamings(df.columns[j])]]

(* variant: the selection df = df[cols] left out *)
getitem_list_unselected(df, keys) == Ok(df)

(* df[keys] with a list of labels: KeyError when a label is absent, every *)
(* match of a repeated label otherwise                                    *)
getitem_list(df, keys) ==
  IF \E k \in Range(keys) : Positions(df.columns, k) = <<>>
  THEN Raise("KeyError")
  ELSE LET ix == Indexer(df.columns, keys)
       IN Ok([columns |-> [p \in DOMAIN ix |-> df.columns[ix[p]]],
              index |-> df.index,
              rows |-> [r \in DOMAIN df.rows |->
                          [p \in DOMAIN ix |-> df.rows[r][ix[p]]]]])

(* df[mask] with a boolean Series: the rows whose mask is True, keeping *)
(* order and index labels                                               *)
getitem_mask(df, mask) ==
  LET kept == SelectSeq(Idx(Len(df.rows)), LAMBDA r : mask[r])
  IN [columns |-> df.columns,
      index |-> [p \in DOMAIN kept |-> df.index[kept[p]]],
      rows |-> [p \in DOMAIN kept |-> df.rows[kept[p]]]]

(* df[col] != code: the boolean Series of the column at position p *)
ne(df, p, code) == [r \in DOMAIN df.rows |-> df.rows[r][p] # Str(code)]

(* df[col].isin(codes) *)
isin(df, p, codes) == [r \in DOMAIN df.rows |-> df.rows[r][p] \in { Str(c) : c \in codes }]

(* variant: the loop over missing_codes left after its first pair *)
drop_missing_first(df, codes) ==
  IF codes = <<>> THEN Ok(df)
  ELSE LET ps == Positions(df.columns, Head(codes)[1])
       IN IF Len(ps) # 1 THEN Raise("ValueError")
          ELSE Ok(getitem_mask(df, ne(df, ps[1], Head(codes)[2])))

(* for col, code in missing_codes.items(): df = df[df[col] != code]       *)
(* df[col] is a Series when the label is unique; with a repeated label it *)
(* is a DataFrame, and indexing the frame by that boolean DataFrame fails  *)
(* on the repeated axis.                                                   *)
RECURSIVE drop_missing(_, _)
drop_missing(df, codes) ==
  IF codes = <<>> THEN Ok(df)
  ELSE LET col == Head(codes)[1]
           code == Head(codes)[2]
           ps == Positions(df.columns, col)
       IN IF Len(ps) # 1 THEN Raise("ValueError")
          ELSE drop_missing(getitem_mask(df, ne(df, ps[1], code)), Tail(codes))

(* year = df['year'].iat[0] *)
first_year(df) == df.rows[1][Positions(df.columns, "year")[1]]

(* variant: the upper end of the range excluded *)
agegp_codes_exclusive(year) ==
  IF 2012 <= year /\ year < 2017 THEN agegp_codes_2012_17
  ELSE agegp_codes_2018_22

(* the age-group codes selected by a year *)
agegp_codes(year) ==
  IF 2012 <= year /\ year <= 2017 THEN agegp_codes_2012_17
  ELSE agegp_codes_2018_22

(* df[df['agegp'].isin(codes)] for the codes selected by year *)
isin_agegp(df, year) ==
  LET a == Positions(df.columns, "agegp")[1]
  IN getitem_mask(df, isin(df, a, agegp_codes(year)))

(* lines 100-104: the age-group filter on the year of the first row left; *)
(* .iat[0] on an empty column raises IndexError, the comparison of a      *)
(* string with 2012 raises TypeError                                      *)
filter_agegp(df) ==
  IF df.rows = <<>> THEN Raise("IndexError")
  ELSE IF first_year(df).t # "num" THEN Raise("TypeError")
  ELSE Ok(isin_agegp(df, first_year(df).n))

(* variant: the year read before the missing codes are dropped *)
_read_cis_pumf_raw_year(f) ==
  LET raw == read_stata(f)
  IN IF raw.status # "ok" THEN raw
     ELSE LET sel == getitem_list(rename(raw.df), cols)
          IN IF sel.status # "ok" THEN sel
             ELSE IF sel.df.rows = <<>> THEN Raise("IndexError")
             ELSE LET kept == drop_missing(sel.df, missing_codes)
                  IN IF kept.status # "ok" THEN kept
                     ELSE Ok(isin_agegp(kept.df, first_year(sel.df).n))

(* _read_cis_pumf(path) *)
_read_cis_pumf(f) ==
  LET raw == read_stata(f)
  IN IF raw.status # "ok" THEN raw
     ELSE LET sel == getitem_list(rename(raw.df), cols)
          IN IF sel.status # "ok" THEN sel
             ELSE LET kept == drop_missing(sel.df, missing_codes)
                  IN IF kept.status # "ok" THEN kept
                     ELSE filter_agegp(kept.df)

RECURSIVE AllIndex(_)
AllIndex(frames) ==
  IF frames = <<>> THEN <<>> ELSE Head(frames).index \o AllIndex(Tail(frames))

RECURSIVE AllRows(_)
AllRows(frames) ==
  IF frames = <<>> THEN <<>> ELSE Head(frames).rows \o AllRows(Tail(frames))

(* variant: pd.concat(dfs), every row keeping its per-file label *)
concat_keep_index(frames) ==
  IF frames = <<>> THEN Raise("ValueError")
  ELSE Ok([columns |-> frames[1].columns,
           index |-> AllIndex(frames),
           rows |-> AllRows(frames)])

(* variant: an empty frame for an empty list *)
concat_empty_frame(frames) ==
  IF frames = <<>> THEN Ok(NoDF)
  ELSE LET all == AllRows(frames)
       IN Ok([columns |-> frames[1].columns,
              index |-> [r \in DOMAIN all |-> r - 1],
              rows |-> all])

(* pd.concat(dfs, ignore_index=True) *)
concat(frames) ==
  IF frames = <<>> THEN Raise("ValueError")
  ELSE LET all == AllRows(frames)
       IN Ok([columns |-> frames[1].columns,
              index |-> [r \in DOMAIN all |-> r - 1],
              rows |-> all])

----------------------------------------------------------------------------
(* Input files.  A PUMF on disk carries the allowlist columns in its own   *)
(* order together with other survey variables; from 2018 on, three of the  *)
(* columns carry the names marstp, immstp, yrimmgp.                         *)

PumfCols2012 ==
  << "pumfid", "personid", "fweight", "year", "prov", "uszgap", "efsize",
     "sex", "agegp", "marst", "immst", "yrimmg", "hhsize", "hhcomp",
     "ttinc", "atinc", "mtinc", "gtr", "majri",
     "dwltyp", "dwtenr", "repa", "suit", "mortg", "mortgm", "condmp", "rentm" >>

Post2018Name(c) ==
  CASE c = "marst" -> "marstp"
    [] c = "immst" -> "immstp"
    [] c = "yrimmg" -> "yrimmgp"
    [] OTHER -> c

PumfCols2018 == [j \in DOMAIN PumfCols2012 |-> Post2018Name(PumfCols2012[j])]

(* a file without the rentm column *)
PumfColsNoRent == SubSeq(PumfCols2012, 1, Len(PumfCols2012) - 1)

(* a file that carries both marst and marstp *)
PumfColsBoth == Append(PumfCols2012, "marstp")

NumericCols ==
  { "year", "pumfid", "personid", "fweight", "ttinc", "atinc", "mtinc", "gtr",
    "hhsize", "mortgm", "condmp", "rentm", "efsize" }

(* the survey variable a column name of a file denotes *)
CanonName(c) ==
  IF c = "marstp" THEN "marst"
  ELSE IF c = "immstp" THEN "immst"
  ELSE IF c = "yrimmgp" THEN "yrimmg"
  ELSE c

(* the codes the survey uses for a missing value *)
PumfMissing ==
  << <<"marst", "99">>, <<"immst", "9">>, <<"yrimmg", "9">>,
     <<"dwltyp", "9">>, <<"dwtenr", "9">>, <<"suit", "9">> >>

(* The cell of column c in the r-th row of a file, for a row of kind k:    *)
(* k.year and k.agegp are the row's year and age-group code; k.sent = n    *)
(* in 1..6 puts the n-th missing code in its column; k.sent = 7 puts '9'   *)
(* in marst and '99' in immst, which are not the missing codes of those    *)
(* columns; k.sent = 8 puts the number 9 in dwltyp.                        *)
Cell(c, k, r) ==
  LET cn == CanonName(c)
  IN CASE cn = "year" -> Num(k.year)
       [] cn = "agegp" -> Str(k.agegp)
       [] cn = "personid" -> Num(r)
       [] k.sent \in 1..6 /\ cn = PumfMissing[k.sent][1] -> Str(PumfMissing[k.sent][2])
       [] k.sent = 7 /\ cn = "marst" -> Str("9")
       [] k.sent = 7 /\ cn = "immst" -> Str("99")
       [] k.sent = 8 /\ cn = "dwltyp" -> Num(9)
       [] cn = "marst" -> Str("01")
       [] OTHER -> IF cn \in NumericCols THEN Num(1) ELSE Str("1")

File(names, kinds) ==
  [parses |-> TRUE,
   columns |-> names,
   rows |-> [r \in DOMAIN kinds |-> [j \in DOMAIN names |-> Cell(names[j], kinds[r], r)]]]

Corrupt == [parses |-> FALSE, columns |-> <<>>, rows |-> <<>>]

SeqsUpTo(S, n) == UNION { [1..k -> S] : k \in 0..n }

Kind(y, a, s) == [year |-> y, agegp |-> a, sent |-> s]

(* row kinds of the single-file specification: years below, inside and    *)
(* above 2012-2017 with age-group codes inside and outside either set,     *)
(* then every missing code and the two look-alikes                         *)
FileKinds ==
  { Kind(2011, "06", 0), Kind(2012, "15", 0), Kind(2015, "08", 0),
    Kind(2017, "06", 0), Kind(2018, "15", 0), Kind(2020, "05", 0),
    Kind(2020, "08", 0), Kind(2023, "15", 0) }
  \cup { Kind(2015, "08", s) : s \in 1..8 }

(* files from 2018 on use the new column names *)
SchemaOf(kinds) ==
  IF kinds # <<>> /\ kinds[1].year >= 2018 THEN PumfCols2018 ELSE PumfCols2012

SingleFiles ==
  { File(names, kinds) : names \in { PumfCols2012, PumfCols2018 },
                         kinds \in SeqsUpTo(FileKinds, MaxRows) }
  \cup { File(names, << Kind(2015, "08", 0) >>) : names \in { PumfColsNoRent, PumfColsBoth } }
  \cup { Corrupt }

(* rows of the batch specification: a valid 2014 row, a 2014 row with the *)
(* marst missing code, a valid 2019 row, a 2019 row with code '15'        *)
K14 == Kind(2014, "08", 0)
K14s == Kind(2014, "08", 1)
K19 == Kind(2019, "08", 0)
K19o == Kind(2019, "15", 0)

BatchRows ==
  { [r \in 1..n |-> K14] : n \in 0..MaxRows }
  \cup { << K14s >>, << K19o >>, << K14s, K19o >>, << K19, K19o >> }

BatchFiles ==
  { File(SchemaOf(kinds), kinds) : kinds \in BatchRows }
  \cup { File(PumfColsNoRent, << K14 >>), Corrupt }

----------------------------------------------------------------------------
(* load_data: files is list(Path(data_dir).glob(pattern)) in discovery     *)
(* order, i the position of the list comprehension, dfs the frames read so *)
(* far, result the value returned or the exception raised.                 *)

Running == [status |-> "running", df |-> NoDF]

TypeOK ==
  /\ pc \in { "read", "done" }
  /\ i \in 1..(Len(files) + 1)
  /\ Len(dfs) < i
  /\ result.status \in { "running", "ok", "ParserError", "KeyError",
                          "ValueError", "IndexError", "TypeError" }

Start ==
  /\ pc = "read"
  /\ i = 1
  /\ dfs = <<>>
  /\ result = Running

(* a directory of up to MaxFiles matching files *)
Init ==
  /\ files \in SeqsUpTo(BatchFiles, MaxFiles)
  /\ Start

(* a directory with at most one matching file *)
InitFile ==
  /\ files \in SeqsUpTo(SingleFiles, 1)
  /\ Start

(* one iteration of [_read_cis_pumf(f) for f in tqdm(files)] that returns *)
ReadOk ==
  /\ pc = "read"
  /\ i <= Len(files)
  /\ LET r == _read_cis_pumf(files[i])
     IN /\ r.status = "ok"
        /\ dfs' = Append(dfs, r.df)
  /\ i' = i + 1
  /\ UNCHANGED <<files, pc, result>>

(* variant: the exception caught and the file passed over *)
ReadSkip ==
  /\ pc = "read"
  /\ i <= Len(files)
  /\ _read_cis_pumf(files[i]).status # "ok"
  /\ i' = i + 1
  /\ UNCHANGED <<files, pc, dfs, result>>

(* one iteration that raises: the exception leaves load_data *)
ReadRaise ==
  /\ pc = "read"
  /\ i <= Len(files)
  /\ LET r == _read_cis_pumf(files[i])
     IN /\ r.status # "ok"
        /\ result' = r
  /\ pc' = "done"
  /\ UNCHANGED <<files, i, dfs>>

(* return pd.concat(dfs, ignore_index=True) *)
Return ==
  /\ pc = "read"
  /\ i > Len(files)
  /\ result' = concat(dfs)
  /\ pc' = "done"
  /\ UNCHANGED <<files, i, dfs>>

Next == ReadOk \/ ReadRaise \/ Return

Spec == Init /\ [][Next]_vars

SpecFile == InitFile /\ [][Next]_vars

----------------------------------------------------------------------------
(* Vocabulary of the properties, stated on the input files and on the     *)
(* frames produced, independently of the operators above.                 *)

Done == pc = "done"
Returned == pc = "done" /\ result.status = "ok"

(* file k has been handed to _read_cis_pumf and the call has ended *)
Processed(k) == k < i \/ (k = i /\ pc = "done")

Allowlist ==
  << "year", "pumfid", "personid", "fweight", "sex", "agegp", "marst",
     "immst", "yrimmg", "prov", "uszgap", "ttinc", "atinc", "mtinc", "gtr",
     "hhsize", "hhcomp", "dwltyp", "dwtenr", "repa", "suit", "mortg",
     "mortgm", "condmp", "rentm" >>

Post2018Names == { "marstp", "immstp", "yrimmgp" }

SentinelTable ==
  { <<"marst", "99">>, <<"immst", "9">>, <<"yrimmg", "9">>,
    <<"dwltyp", "9">>, <<"dwtenr", "9">>, <<"suit", "9">> }

Valid2012_17 == { "07", "08", "09", "10", "11", "12", "13", "14", "15" }
Valid2018_22 == { "06", "07", "08", "09", "10", "11", "12", "13", "14" }
ValidFor(y) == IF y \in 2012..2017 THEN Valid2012_17 ELSE Valid2018_22

(* the frames produced so far, the returned table included *)
Frames == Range(dfs) \cup (IF Returned THEN { result.df } ELSE {})

(* the cell of allowlist column c in a row of a produced frame *)
OutCell(row, c) == row[CHOOSE j \in DOMAIN Allowlist : Allowlist[j] = c]

(* a file that parses and holds every allowlist column exactly once, *)
(* under its canonical or its post-2018 name                          *)
WellFormed(f) ==
  /\ f.parses
  /\ \A c \in Range(Allowlist) :
       Cardinality({ j \in DOMAIN f.columns : CanonName(f.columns[j]) = c }) = 1

(* the cell of column c (canonical name) in row r of a well-formed file *)
InCell(f, r, c) == f.rows[r][CHOOSE j \in DOMAIN f.columns : CanonName(f.columns[j]) = c]

HasSentinel(f, r) == \E p \in SentinelTable : InCell(f, r, p[1]) = Str(p[2])

Survivors(f) == SelectSeq(Idx(Len(f.rows)), LAMBDA r : ~HasSentinel(f, r))

SameYear(f) ==
  \A r1, r2 \in DOMAIN f.rows : InCell(f, r1, "year") = InCell(f, r2, "year")

(* the year of the first row of f that carries no sentinel *)
RefYear(f) == InCell(f, Survivors(f)[1], "year").n

(* row r of f restricted to the allowlist, in allowlist order *)
Project(f, r) == [j \in DOMAIN Allowlist |-> InCell(f, r, Allowlist[j])]

(* the rows of f without sentinel whose age-group code is valid for y *)
ExpectedRows(f, y) ==
  LET keep == SelectSeq(Survivors(f),
                        LAMBDA r : InCell(f, r, "agegp") \in { Str(c) : c \in ValidFor(y) })
  IN [p \in DOMAIN keep |-> Project(f, keep[p])]

----------------------------------------------------------------------------
(* C1 (as stated): every table returned by load_data has exactly the 24   *)
(* allowlist columns, in allowlist order.                                  *)
C1_Original ==
  Returned =>
    /\ result.df.columns = cols
    /\ Len(result.df.columns) = 24
    /\ \A r \in DOMAIN result.df.rows : Len(result.df.rows[r]) = 24

(* C1 (amended): every table returned by load_data, and every frame read, *)
(* has exactly the 25 columns hardcoded in _read_cis_pumf, in that order,  *)
(* each once, and every row has one value per column.                      *)
C1_Columns ==
  \A df \in Frames :
    /\ df.columns = cols
    /\ df.columns = Allowlist
    /\ Len(df.columns) = 25
    /\ Cardinality(Range(df.columns)) = 25
    /\ \A r \in DOMAIN df.rows : Len(df.rows[r]) = 25

(* a table with rows was returned for a file that carries other columns, *)
(* in another order, under the post-2018 names                            *)
C1_Witness ==
  /\ Returned
  /\ Len(files) = 1
  /\ Len(files[1].columns) > 25
  /\ "marstp" \in Range(files[1].columns)
  /\ files[1].columns[1] # "year"
  /\ Len(result.df.rows) = MaxRows

----------------------------------------------------------------------------
(* C2 (as stated): the age-group code of every output row is in the set   *)
(* selected by that row's own year, whether or not the rows of its file    *)
(* share one year.                                                         *)
C2_Original ==
  \A df \in Frames : \A r \in DOMAIN df.rows :
    OutCell(df.rows[r], "agegp").s \in ValidFor(OutCell(df.rows[r], "year").n)

(* C2 (amended): the age-group code of every output row is in the set     *)
(* selected by the year of the first row of its file that carries no       *)
(* sentinel (2012-2017 set for a year in [2012,2017], 2018-2022 set for    *)
(* any other year, below 2012 and above 2022 included); when the rows of   *)
(* the file share one year, that is the set selected by the row's own year.*)
C2_FileYear ==
  \A k \in DOMAIN dfs : \A r \in DOMAIN dfs[k].rows :
    LET row == dfs[k].rows[r]
    IN /\ OutCell(row, "agegp").t = "str"
       /\ OutCell(row, "agegp").s \in ValidFor(RefYear(files[k]))
       /\ SameYear(files[k]) =>
            OutCell(row, "agegp").s \in ValidFor(OutCell(row, "year").n)

(* a returned row whose own year selects the other set: the file's first *)
(* row is of 2012-2017, the row itself is of a later year with code '15'  *)
C2_Witness ==
  /\ Returned
  /\ Len(dfs) = 1
  /\ ~SameYear(files[1])
  /\ \E r \in DOMAIN result.df.rows :
       /\ OutCell(result.df.rows[r], "year").n > 2022
       /\ OutCell(result.df.rows[r], "agegp").s = "15"
       /\ RefYear(files[1]) \in 2012..2017

----------------------------------------------------------------------------
(* C3: no output row holds, in a column of the missing-value sentinel     *)
(* table, the sentinel of that column; also for files whose columns        *)
(* arrived as marstp, immstp, yrimmgp.                                     *)
C3_NoSentinel ==
  \A df \in Frames : \A r \in DOMAIN df.rows : \A p \in SentinelTable :
    OutCell(df.rows[r], p[1]) # Str(p[2])

(* a post-2018 file with a row holding marstp = '99' and a row without *)
(* sentinel: a table with the second row only is returned               *)
C3_Witness ==
  /\ Returned
  /\ Len(files) = 1
  /\ "marstp" \in Range(files[1].columns)
  /\ Len(files[1].rows) = 2
  /\ InCell(files[1], 1, "marst") = Str("99")
  /\ Len(result.df.rows) = 1

----------------------------------------------------------------------------
(* C4 (as stated): for a file whose rows share one year, _read_cis_pumf   *)
(* returns exactly the rows without sentinel whose age-group code is in    *)
(* the set selected by the year, in order, values unchanged.               *)
C4_Original ==
  \A k \in DOMAIN files :
    (Processed(k) /\ WellFormed(files[k]) /\ SameYear(files[k])) =>
      /\ k <= Len(dfs)
      /\ \A y \in { InCell(files[k], r, "year").n : r \in DOMAIN files[k].rows } :
           dfs[k].rows = ExpectedRows(files[k], y)

(* C4 (amended): for a file whose rows share one year and that has at     *)
(* least one row without sentinel, _read_cis_pumf returns exactly the rows *)
(* without sentinel whose age-group code is in the set selected by the     *)
(* year, in within-file order, with their values unchanged and their       *)
(* allowlist columns only; a file with no row, or with a sentinel in every *)
(* row, ends in an error instead.                                          *)
C4_ExactRows ==
  \A k \in DOMAIN files :
    (Processed(k) /\ WellFormed(files[k]) /\ SameYear(files[k])) =>
      IF Survivors(files[k]) = <<>>
      THEN k = i /\ result.status = "IndexError"
      ELSE /\ k <= Len(dfs)
           /\ dfs[k].rows = ExpectedRows(files[k], RefYear(files[k]))
           /\ Len(dfs[k].index) = Len(dfs[k].rows)

(* the two scenarios cut to MaxRows rows: a 2015 file with marst = '99' in *)
(* one row loses that row only; a 2020 file with codes '05' and '08' keeps *)
(* the '08' row only                                                       *)
C4_Witness ==
  /\ Len(dfs) = 1
  /\ Len(files[1].rows) = 2
  /\ SameYear(files[1])
  /\ \/ /\ InCell(files[1], 1, "year") = Num(2015)
        /\ InCell(files[1], 2, "marst") = Str("99")
        /\ ~HasSentinel(files[1], 1)
        /\ dfs[1].rows = << Project(files[1], 1) >>
     \/ /\ InCell(files[1], 1, "year") = Num(2020)
        /\ InCell(files[1], 1, "agegp") = Str("05")
        /\ InCell(files[1], 2, "agegp") = Str("08")
        /\ dfs[1].rows = << Project(files[1], 2) >>

----------------------------------------------------------------------------
RECURSIVE RowCount(_)
RowCount(frames) ==
  IF frames = <<>> THEN 0 ELSE Len(Head(frames).rows) + RowCount(Tail(frames))

(* the number of rows of the frames before the k-th *)
Offset(k) == RowCount(SubSeq(dfs, 1, k - 1))

(* C5: a table returned for a non-empty list of files is the concatenation *)
(* of the per-file filtered tables in discovery order and within-file      *)
(* order: its row count is the sum of theirs, every row of the k-th table  *)
(* stands unchanged at its offset, and the index is 0..n-1.                *)
C5_Concat ==
  (Returned /\ files # <<>>) =>
    /\ Len(dfs) = Len(files)
    /\ Len(result.df.rows) = RowCount(dfs)
    /\ \A k \in DOMAIN dfs :
         /\ WellFormed(files[k])
         /\ dfs[k].rows = ExpectedRows(files[k], RefYear(files[k]))
         /\ \A p \in DOMAIN dfs[k].rows :
              result.df.rows[Offset(k) + p] = dfs[k].rows[p]
    /\ result.df.index = [r \in 1..RowCount(dfs) |-> r - 1]
    /\ result.df.columns = Allowlist

(* a 2014 file and a 2019 file, both with surviving rows: the table has   *)
(* the rows of both, and the first row of the second file, labelled 0 in  *)
(* its file, is not labelled 0 in the table                               *)
C5_Witness ==
  /\ Returned
  /\ Len(dfs) = 2
  /\ Len(dfs[1].rows) = MaxRows
  /\ Len(dfs[2].rows) = 1
  /\ OutCell(dfs[1].rows[1], "year") = Num(2014)
  /\ OutCell(dfs[2].rows[1], "year") = Num(2019)
  /\ dfs[2].index = << 0 >>
  /\ Len(result.df.rows) = MaxRows + 1
  /\ result.df.index[MaxRows + 1] = MaxRows

----------------------------------------------------------------------------
(* the file of the same values under the canonical column names *)
Twin(f) == [f EXCEPT !.columns = [j \in DOMAIN f.columns |-> CanonName(f.columns[j])]]

UsesPost2018(f) == f.parses /\ Range(f.columns) \cap Post2018Names # {}

(* C6: a file under the post-2018 names marstp, immstp, yrimmgp gives the *)
(* same outcome, schema and rows, as the file of the same values under    *)
(* marst, immst, yrimmg, and no frame has a column marstp, immstp or      *)
(* yrimmgp.                                                               *)
C6_Renamed ==
  /\ \A df \in Frames : Range(df.columns) \cap Post2018Names = {}
  /\ \A k \in DOMAIN files :
       (Processed(k) /\ UsesPost2018(files[k]) /\ WellFormed(files[k])) =>
         LET twin == _read_cis_pumf(Twin(files[k]))
         IN IF k < i
            THEN twin.status = "ok" /\ dfs[k] = twin.df
            ELSE result = twin

(* a post-2018 file with a missing code in immstp: one row dropped, one *)
(* row returned                                                          *)
C6_Witness ==
  /\ Returned
  /\ Len(files) = 1
  /\ Post2018Names \subseteq Range(files[1].columns)
  /\ Len(files[1].rows) = 2
  /\ InCell(files[1], 2, "immst") = Str("9")
  /\ Len(result.df.rows) = 1
  /\ result.df.columns = Allowlist

----------------------------------------------------------------------------
(* a file that does not parse or lacks an allowlist column after renaming *)
Fails(f) ==
  \/ ~f.parses
  \/ \E c \in Range(Allowlist) : \A j \in DOMAIN f.columns : CanonName(f.columns[j]) # c

(* C7: when a matching file fails to parse or lacks an allowlist column,  *)
(* load_data ends in an error and returns no table, wherever the file     *)
(* stands and whatever was read before it; the file is not passed over    *)
(* and nothing is read after the error.                                   *)
C7_FailsWhole ==
  /\ \A k \in DOMAIN files : Fails(files[k]) => k >= i
  /\ (Done /\ \E k \in DOMAIN files : Fails(files[k])) =>
       /\ result.status \notin { "ok", "running" }
       /\ result.df = NoDF
       /\ i <= Len(files)
       /\ Len(dfs) = i - 1
  /\ (Done /\ i <= Len(files) /\ Fails(files[i])) =>
       result.status = (IF files[i].parses THEN "KeyError" ELSE "ParserError")

(* the second file lacks a column, the first one was read with all its *)
(* rows: no table                                                       *)
C7_Witness ==
  /\ Done
  /\ Len(files) = 2
  /\ i = 2
  /\ files[2].parses
  /\ Fails(files[2])
  /\ Len(dfs) = 1
  /\ Len(dfs[1].rows) = MaxRows
  /\ result.status = "KeyError"

----------------------------------------------------------------------------
(* C8: with zero matching files load_data returns an empty table with the *)
(* allowlist schema or ends in an error; never a table with rows, never   *)
(* an empty table with another schema.                                    *)
C8_ZeroFiles ==
  (Done /\ files = <<>>) =>
    \/ result.status \notin { "ok", "running" }
    \/ /\ result.status = "ok"
       /\ result.df.rows = <<>>
       /\ result.df.columns = Allowlist

(* zero files: pd.concat of an empty list raises *)
C8_Witness ==
  /\ Done
  /\ files = <<>>
  /\ dfs = <<>>
  /\ result.status = "ValueError"

----------------------------------------------------------------------------
(* C9 (as stated): in every state, the two sets of valid age-group codes *)
(* are disjoint: no code belongs to both.                               *)
C9_Original == TypeOK => agegp_codes_2012_17 \cap agegp_codes_2018_22 = {}

(* the frames filtered with the 2012-2017 set, and with the other set *)
Frames2012_17 == { k \in DOMAIN dfs : RefYear(files[k]) \in 2012..2017 }
Frames2018_22 == { k \in DOMAIN dfs : RefYear(files[k]) \notin 2012..2017 }

(* C9 (amended): the two sets of valid age-group codes differ and overlap: *)
(* '07'..'14' belong to both, '15' to the 2012-2017 set only, '06' to the  *)
(* 2018-2022 set only; a code kept under both sets is one of '07'..'14'.   *)
C9_Overlap ==
  /\ agegp_codes_2012_17 \cap agegp_codes_2018_22
       = { "07", "08", "09", "10", "11", "12", "13", "14" }
  /\ agegp_codes_2012_17 \ agegp_codes_2018_22 = { "15" }
  /\ agegp_codes_2018_22 \ agegp_codes_2012_17 = { "06" }
  /\ \A k1 \in Frames2012_17 : \A k2 \in Frames2018_22 :
       \A r1 \in DOMAIN dfs[k1].rows : \A r2 \in DOMAIN dfs[k2].rows :
         OutCell(dfs[k1].rows[r1], "agegp") = OutCell(dfs[k2].rows[r2], "agegp") =>
           OutCell(dfs[k1].rows[r1], "agegp").s
             \in (agegp_codes_2012_17 \cap agegp_codes_2018_22) \ { "06", "15" }

(* code '08' kept in a 2014 file and in a 2019 file *)
C9_Witness ==
  /\ Len(dfs) = 2
  /\ 1 \in Frames2012_17
  /\ 2 \in Frames2018_22
  /\ \E r1 \in DOMAIN dfs[1].rows : \E r2 \in DOMAIN dfs[2].rows :
       /\ OutCell(dfs[1].rows[r1], "agegp") = Str("08")
       /\ OutCell(dfs[2].rows[r2], "agegp") = Str("08")

----------------------------------------------------------------------------
(* C10: the year of a file is that of the first row left by the sentinel  *)
(* filter.  A file with no row, or with a sentinel in every row, ends     *)
(* _read_cis_pumf and the whole load_data in an error at the year, even   *)
(* when other files were read; a file with a row without sentinel whose   *)
(* rows all fall to the age-group filter gives an empty frame with the    *)
(* allowlist columns, and the next file is read.                          *)
C10_YearOfFirstSurvivor ==
  \A k \in DOMAIN files :
    (Processed(k) /\ WellFormed(files[k])) =>
      IF Survivors(files[k]) = <<>>
      THEN /\ k = i
           /\ result.status = "IndexError"
           /\ result.df = NoDF
      ELSE /\ k < i
           /\ dfs[k].columns = Allowlist
           /\ dfs[k].rows = ExpectedRows(files[k], RefYear(files[k]))

(* first file: a 2014 row with a sentinel, then a 2019 row with code '15', *)
(* which the 2019 set drops and the 2014 set would keep: an empty frame,   *)
(* and the second file is read; it has a sentinel in every row: error      *)
C10_Witness ==
  /\ Done
  /\ Len(files) = 2
  /\ i = 2
  /\ Len(files[1].rows) = 2
  /\ HasSentinel(files[1], 1)
  /\ InCell(files[1], 1, "year") = Num(2014)
  /\ InCell(files[1], 2, "year") = Num(2019)
  /\ InCell(files[1], 2, "agegp") = Str("15")
  /\ dfs[1].rows = <<>>
  /\ dfs[1].columns = Allowlist
  /\ WellFormed(files[2])
  /\ files[2].rows # <<>>
  /\ Survivors(files[2]) = <<>>
  /\ result.status = "IndexError"

====
